---- MODULE Spec2Model ----
(***************************************************************************)
(* ReliableUDP.cpp: the FlowControl governor and the main program that     *)
(* drives a ReliableConnection, with the connection, the sequence          *)
(* comparison and the ack tracker of Net.h that main relies on.            *)
(*                                                                         *)
(* Times are fixed-point, in sixteenths of a second (4.0f is 64): every    *)
(* deltaTime drawn below is a multiple of 1/16 s, so each float sum,       *)
(* doubling and halving of the source is exact and the integer arithmetic  *)
(* below computes the same values the floats hold.  rtt is in              *)
(* milliseconds.                                                           *)
(***************************************************************************)
EXTENDS Integers, Sequences, FiniteSets, TLC

VARIABLES
    mode,                          \* FlowControl::mode
    penalty_time,                  \* FlowControl::penalty_time
    good_conditions_time,          \* FlowControl::good_conditions_time
    penalty_reduction_accumulator, \* FlowControl::penalty_reduction_accumulator
    call,                          \* the last member function called, with its arguments
    pre,                           \* the governor's fields when that call began
    ret,                           \* what the last call returned (0: a void call)
    runTime,                       \* deltaTime summed over the current run of rtt <= 250 Updates
    runP,                          \* penalty_time when that run began
    runPromotions,                 \* Bad -> Good transitions during that run
    episodeHalvings,               \* halvings of penalty_time since the last promotion
    conn,                          \* each process's ReliableConnection
    net,                           \* datagrams handed to the transport, by destination
    pcClient,                      \* where main() is when run as the client
    pcServer,                      \* where main() is when run as the server
    lastSend,                      \* the last SendPacket call: caller, state, result
    clientResults,                 \* what the client's SendPacket calls returned, in order
    connectElapsed,                \* deltaTime the client was updated with since Connect
    connectFails,                  \* times ConnectFailed() turned true since Connect
    listened,                      \* whether the server ever called Listen
    sustained,                     \* the fixed deltaTime of a sustained run of rtt <= 250 Updates (0: none)
    sustainedFrom,                 \* the mode and penalty_time that run began with
    s1,                            \* MoreRecent's first argument
    s2,                            \* MoreRecent's second argument
    seqRet,                        \* MoreRecent(s1, s2) and MoreRecent(s2, s1), once called
    tracker,                       \* an AckTracker: sent buffer, counters, and what each count counted
    localSequence,                 \* the sequence number the next sent packet carries
    clock,                         \* the relative clock the tracker is driven with, in ticks
    received,                      \* the server's metadata flags and values (main, lines 221-226)
    delivery                       \* the packets ReceivePacket is still to return, in order

fcVars == <<mode, penalty_time, good_conditions_time, penalty_reduction_accumulator>>
histVars == <<call, pre, ret, runTime, runP, runPromotions, episodeHalvings>>
connVars == <<conn, net, pcClient, pcServer, lastSend, clientResults,
              connectElapsed, connectFails, listened>>
sustainVars == <<sustained, sustainedFrom>>
seqVars == <<s1, s2, seqRet>>
ackVars == <<tracker, localSequence, clock>>
decodeVars == <<received, delivery>>
restVars == <<sustainVars, seqVars, ackVars, decodeVars>>
\* everything but one of the groups above
sustainFrame == <<fcVars, histVars, connVars, seqVars, ackVars, decodeVars>>
seqFrame == <<fcVars, histVars, connVars, sustainVars, ackVars, decodeVars>>
ackFrame == <<fcVars, histVars, connVars, sustainVars, seqVars, decodeVars>>
decodeFrame == <<fcVars, histVars, sustainVars, seqVars, ackVars>>
vars == <<fcVars, histVars, connVars, restVars>>

Max(a, b) == IF a > b THEN a ELSE b
Min(a, b) == IF a < b THEN a ELSE b

\* seconds -> sixteenths of a second
Sec(n) == n * 16

Good == "Good"
Bad == "Bad"

RTT_Threshold == 250

\* the governor's fields as one value
Fields(m, p, g, a) ==
    [mode |-> m, penalty_time |-> p, good_conditions_time |-> g,
     penalty_reduction_accumulator |-> a]

Now == Fields(mode, penalty_time, good_conditions_time, penalty_reduction_accumulator)

----------------------------------------------------------------------------
(* FlowControl::Reset *)

ResetKeepsPenalty(fc) == Fields(Bad, fc.penalty_time, 0, 0)

\* lines 37-43: the fields after Reset() ran on a governor holding fc
ResetFields(fc) == Fields(Bad, Sec(4), 0, 0)

----------------------------------------------------------------------------
(* FlowControl::Update, the Good branch *)

DropPenaltyNoCap(fc) ==
    IF fc.good_conditions_time < Sec(10) /\ fc.penalty_time < Sec(60)
    THEN fc.penalty_time * 2
    ELSE fc.penalty_time

\* lines 55-61: the penalty after a drop to Bad
DropPenalty(fc) ==
    IF fc.good_conditions_time < Sec(10) /\ fc.penalty_time < Sec(60)
    THEN IF fc.penalty_time * 2 > Sec(60) THEN Sec(60) ELSE fc.penalty_time * 2
    ELSE fc.penalty_time

ReducePenaltyNoFloor(p) == p \div 2

\* lines 72-74: the halved penalty
ReducePenalty(p) == IF p \div 2 < Sec(1) THEN Sec(1) ELSE p \div 2

\* line 70
ShouldReduce(acc, p) == acc > Sec(10) /\ p > Sec(1)

GoodStepKeepsAccumulator(fc, deltaTime) ==
    LET g == fc.good_conditions_time + deltaTime
        a == fc.penalty_reduction_accumulator + deltaTime
    IN  IF ShouldReduce(a, fc.penalty_time)
        THEN Fields(Good, ReducePenalty(fc.penalty_time), g, a)
        ELSE Fields(Good, fc.penalty_time, g, a)

GoodStepResetsStreak(fc, deltaTime) ==
    LET g == fc.good_conditions_time + deltaTime
        a == fc.penalty_reduction_accumulator + deltaTime
    IN  IF ShouldReduce(a, fc.penalty_time)
        THEN Fields(Good, ReducePenalty(fc.penalty_time), 0, a)
        ELSE Fields(Good, fc.penalty_time, g, a)

\* lines 67-77: a Good sample with rtt <= RTT_Threshold
GoodStep(fc, deltaTime) ==
    LET g == fc.good_conditions_time + deltaTime
        a == fc.penalty_reduction_accumulator + deltaTime
    IN  IF ShouldReduce(a, fc.penalty_time)
        THEN Fields(Good, ReducePenalty(fc.penalty_time), g, 0)
        ELSE Fields(Good, fc.penalty_time, g, a)

DropStepKeepsAccumulator(fc) ==
    Fields(Bad, DropPenalty(fc), 0, fc.penalty_reduction_accumulator)

\* lines 53-64: a Good sample with rtt > RTT_Threshold
DropStep(fc) == Fields(Bad, DropPenalty(fc), 0, 0)

GoodBranchFallsThrough(fc, deltaTime, rtt) ==
    IF rtt > RTT_Threshold
    THEN [fc |-> DropStep(fc), returned |-> FALSE]
    ELSE [fc |-> GoodStep(fc, deltaTime), returned |-> FALSE]

\* lines 49-78; returned is TRUE when the branch left Update through `return`
GoodBranch(fc, deltaTime, rtt) ==
    IF rtt > RTT_Threshold
    THEN [fc |-> DropStep(fc), returned |-> TRUE]
    ELSE [fc |-> GoodStep(fc, deltaTime), returned |-> FALSE]

----------------------------------------------------------------------------
(* FlowControl::Update, the Bad branch *)

StreakKeptOnBadSample(fc, deltaTime, rtt) ==
    IF rtt <= RTT_Threshold
    THEN fc.good_conditions_time + deltaTime
    ELSE fc.good_conditions_time

\* lines 82-85
Streak(fc, deltaTime, rtt) ==
    IF rtt <= RTT_Threshold THEN fc.good_conditions_time + deltaTime ELSE 0

ShouldPromoteAtEqual(g, p) == g >= p

\* line 87
ShouldPromote(g, p) == g > p

\* lines 80-95
BadBranch(fc, deltaTime, rtt) ==
    LET g == Streak(fc, deltaTime, rtt)
    IN  IF ShouldPromote(g, fc.penalty_time)
        THEN Fields(Good, fc.penalty_time, 0, 0)
        ELSE Fields(Bad, fc.penalty_time, g, fc.penalty_reduction_accumulator)

\* lines 45-96: the fields after the call and the branches it executed
UpdateTrace(fc, deltaTime, rtt) ==
    LET first == IF fc.mode = Good
                 THEN GoodBranch(fc, deltaTime, rtt)
                 ELSE [fc |-> fc, returned |-> FALSE]
        ranGood == IF fc.mode = Good THEN {"Good"} ELSE {}
    IN  IF first.returned THEN [fc |-> first.fc, ran |-> ranGood]
        ELSE IF first.fc.mode = Bad
        THEN [fc |-> BadBranch(first.fc, deltaTime, rtt), ran |-> ranGood \cup {"Bad"}]
        ELSE [fc |-> first.fc, ran |-> ranGood]

\* lines 45-96
UpdateFields(fc, deltaTime, rtt) == UpdateTrace(fc, deltaTime, rtt).fc

----------------------------------------------------------------------------
(* FlowControl::GetSendRate *)

SendRateSwapped(m) == IF m = Good THEN 10 ELSE 30

\* line 100
SendRate(m) == IF m = Good THEN 30 ELSE 10

----------------------------------------------------------------------------
(* ReliableConnection (Net.h): the connection state machine main() drives. *)
(* Connection times are in ticks of DeltaTime, 1/30 s.                     *)

Ticks(seconds) == seconds * 30

\* line 23, in ticks
DeltaTime == 1

\* line 25
TimeOut == Ticks(10)

\* line 22
ProtocolId == 287454020

Disconnected == "Disconnected"
Listening == "Listening"
Connecting == "Connecting"
ConnectFail == "ConnectFail"
Connected == "Connected"

Endpoints == {"client", "server"}
NoAddress == "none"

Connection(st, acc, addr) ==
    [state |-> st, timeoutAccumulator |-> acc, address |-> addr]

\* ReliableConnection connection(ProtocolId, TimeOut); connection.Start(port)
Started == Connection(Disconnected, 0, NoAddress)

Listen(c) == Connection(Listening, 0, NoAddress)

Connect(c, addr) == Connection(Connecting, 0, addr)

IsConnected(c) == c.state = Connected

ConnectFailed(c) == c.state = ConnectFail

TimedOutAtTimeOut(acc) == acc >= TimeOut

\* "elapsed time > TimeOut"
TimedOut(acc) == acc > TimeOut

\* Update(deltaTime): advance the time since the last received packet and
\* apply the timeouts of the transition table
ConnUpdate(c, deltaTime) ==
    LET acc == c.timeoutAccumulator + deltaTime
    IN  IF TimedOut(acc) /\ c.state = Connecting
        THEN Connection(ConnectFail, 0, NoAddress)
        ELSE IF TimedOut(acc) /\ c.state = Connected
        THEN Connection(Disconnected, 0, NoAddress)
        ELSE Connection(c.state, acc, c.address)

Datagram(from, protocol, payload) ==
    [from |-> from, protocol |-> protocol, payload |-> payload]

\* what a Connecting connection sends each tick
Handshake == "handshake"

\* the datagrams Update hands to the transport: while Connecting, a handshake
SentByUpdate(c, self) ==
    IF c.state = Connecting
    THEN <<Datagram(self, ProtocolId, Handshake)>>
    ELSE <<>>

CanSendOnceAddressed(c) == c.address # NoAddress

\* SendPacket "fails with NotConnected if state # Connected"
CanSend(c) == c.state = Connected

NotConnected == "NotConnected"
Sent == "Sent"

\* SendPacket(payload, size): the result and the datagrams handed over
SendPacket(c, self, payload) ==
    IF CanSend(c)
    THEN [result |-> Sent, out |-> <<Datagram(self, ProtocolId, payload)>>]
    ELSE [result |-> NotConnected, out |-> <<>>]

\* whether ReceivePacket accepts datagram d
Accepts(c, d) ==
    /\ d.protocol = ProtocolId
    /\ \/ c.state = Listening
       \/ c.state \in {Connecting, Connected} /\ d.from = c.address

\* ReceivePacket on datagram d: the connection afterwards
ReceivePacket(c, d) ==
    IF Accepts(c, d) THEN Connection(Connected, 0, d.from) ELSE c

\* a full receive buffer drops the datagram
MaxInFlight == 1

Deliver(inbox, out) ==
    IF Len(inbox) + Len(out) <= MaxInFlight THEN inbox \o out ELSE inbox

Without(q, i) == [j \in 1 .. Len(q) - 1 |-> IF j < i THEN q[j] ELSE q[j + 1]]

NoSend == [by |-> NoAddress, state |-> Disconnected, result |-> Sent, handed |-> FALSE]

\* before either process has run
ConnIdle ==
    /\ conn = [e \in Endpoints |-> Started]
    /\ net = [e \in Endpoints |-> <<>>]
    /\ pcClient = "open"
    /\ pcServer = "listen"
    /\ lastSend = NoSend
    /\ clientResults = <<>>
    /\ connectElapsed = 0
    /\ connectFails = 0
    /\ listened = FALSE

----------------------------------------------------------------------------
(* The calls a driver makes on one FlowControl *)

\* longest run of rtt <= 250 Updates that is explored, in seconds
MaxRunSeconds == 72

DeltaTimes == {0, Sec(1), Sec(10)}
Rtts == {100, 250, 251}

NoCall == [op |-> "FlowControl", deltaTime |-> 0, rtt |-> 0]

Set(fc) ==
    /\ mode' = fc.mode
    /\ penalty_time' = fc.penalty_time
    /\ good_conditions_time' = fc.good_conditions_time
    /\ penalty_reduction_accumulator' = fc.penalty_reduction_accumulator

\* what the fields may hold before the constructor has assigned them
Uninitialized == {Fields(Good, 0, 0, 0), Fields(Bad, Sec(60), Sec(1), Sec(1))}

\* episodeHalvings after an Update took the fields from `before` to `after`:
\* a promotion starts the count again, a Good call that lowered the penalty
\* adds one, and a drop leaves the count of the episode it ended
HalvingsAfter(before, after) ==
    IF before.mode = Bad /\ after.mode = Good THEN 0
    ELSE IF before.mode = Good /\ after.mode = Good
            /\ after.penalty_time < before.penalty_time
    THEN episodeHalvings + 1
    ELSE episodeHalvings

\* no sustained run has begun
SustainIdle ==
    /\ sustained = 0
    /\ sustainedFrom = [mode |-> Bad, penalty_time |-> 0]

\* MoreRecent has not been called
SeqIdle ==
    /\ s1 = [hi |-> 0, lo |-> 0]
    /\ s2 = [hi |-> 0, lo |-> 0]
    /\ seqRet = [called |-> FALSE, forward |-> FALSE, backward |-> FALSE]

\* an AckTracker that has sent nothing
NoPackets ==
    [sent_buffer |-> <<>>, sent_packets |-> 0, acked_packets |-> 0,
     lost_packets |-> 0, sentLog |-> <<>>, ackedLog |-> <<>>, lostLog |-> <<>>]

AckIdle ==
    /\ tracker = NoPackets
    /\ localSequence = [hi |-> 0, lo |-> 0]
    /\ clock = 0

\* lines 221-226: nothing received yet
NothingReceived ==
    [fileSizeReceived |-> FALSE, hashReceived |-> FALSE, fileNameReceived |-> FALSE,
     fileSize |-> 0, fileHash |-> "", fileName |-> ""]

DecodeIdle ==
    /\ received = NothingReceived
    /\ delivery = <<>>

\* the constructor, lines 31-35: Reset() on the fields as allocated
Constructed ==
    \E u \in Uninitialized :
        /\ mode = ResetFields(u).mode
        /\ penalty_time = ResetFields(u).penalty_time
        /\ good_conditions_time = ResetFields(u).good_conditions_time
        /\ penalty_reduction_accumulator = ResetFields(u).penalty_reduction_accumulator
        /\ call = NoCall
        /\ pre = ResetFields(u)
        /\ ret = 0
        /\ runTime = 0
        /\ runP = ResetFields(u).penalty_time
        /\ runPromotions = 0
        /\ episodeHalvings = 0

RestIdle ==
    /\ SustainIdle
    /\ SeqIdle
    /\ AckIdle
    /\ DecodeIdle

Init ==
    /\ Constructed
    /\ ConnIdle
    /\ RestIdle

Reset ==
    /\ Set(ResetFields(Now))
    /\ call' = [op |-> "Reset", deltaTime |-> 0, rtt |-> 0]
    /\ pre' = Now
    /\ runTime' = 0
    /\ runP' = ResetFields(Now).penalty_time
    /\ runPromotions' = 0
    /\ episodeHalvings' = 0
    /\ ret' = 0
    /\ UNCHANGED <<connVars, restVars>>

\* Update with rtt <= RTT_Threshold: the run of good samples goes on
UpdateGoodRtt ==
    \E deltaTime \in DeltaTimes, rtt \in {r \in Rtts : r <= RTT_Threshold} :
        /\ runTime + deltaTime <= Sec(MaxRunSeconds)
        /\ Set(UpdateFields(Now, deltaTime, rtt))
        /\ call' = [op |-> "Update", deltaTime |-> deltaTime, rtt |-> rtt]
        /\ pre' = Now
        /\ runTime' = runTime + deltaTime
        /\ runPromotions' = runPromotions
               + (IF mode = Bad /\ UpdateFields(Now, deltaTime, rtt).mode = Good
                  THEN 1 ELSE 0)
        /\ episodeHalvings' = HalvingsAfter(Now, UpdateFields(Now, deltaTime, rtt))
        /\ ret' = 0
        /\ UNCHANGED <<runP, connVars, restVars>>

\* Update with rtt > RTT_Threshold: the run ends and the next one begins
UpdateBadRtt ==
    \E deltaTime \in DeltaTimes, rtt \in {r \in Rtts : r > RTT_Threshold} :
        /\ Set(UpdateFields(Now, deltaTime, rtt))
        /\ call' = [op |-> "Update", deltaTime |-> deltaTime, rtt |-> rtt]
        /\ pre' = Now
        /\ runTime' = 0
        /\ runP' = UpdateFields(Now, deltaTime, rtt).penalty_time
        /\ runPromotions' = 0
        /\ episodeHalvings' = HalvingsAfter(Now, UpdateFields(Now, deltaTime, rtt))
        /\ ret' = 0
        /\ UNCHANGED <<connVars, restVars>>

GetSendRate ==
    /\ ret' = SendRate(mode)
    /\ call' = [op |-> "GetSendRate", deltaTime |-> 0, rtt |-> 0]
    /\ pre' = Now
    /\ UNCHANGED <<fcVars, runTime, runP, runPromotions, episodeHalvings, connVars, restVars>>

Next == Reset \/ UpdateGoodRtt \/ UpdateBadRtt \/ GetSendRate

Spec == Init /\ [][Next]_vars

----------------------------------------------------------------------------
(* main(), run once as the client and once as the server *)

\* server loop iterations explored
MaxWaitTicks == 30

\* hand `out` to the transport, addressed to c's peer
Post(netw, c, out) ==
    IF out # <<>> /\ c.address \in Endpoints
    THEN [netw EXCEPT ![c.address] = Deliver(@, out)]
    ELSE netw

SendRecord(self, c, r) ==
    [by |-> self, state |-> c.state, result |-> r.result, handed |-> r.out # <<>>]

\* lines 169-177: the file opens or main returns
ClientOpenFile ==
    /\ pcClient = "open"
    /\ \E opened \in BOOLEAN : pcClient' = (IF opened THEN "connect" ELSE "exit")
    /\ UNCHANGED <<fcVars, histVars, restVars, conn, net, pcServer, lastSend, clientResults,
                   connectElapsed, connectFails, listened>>

\* line 180
ClientConnect ==
    /\ pcClient = "connect"
    /\ conn' = [conn EXCEPT !["client"] = Connect(@, "server")]
    /\ pcClient' = "sendSize"
    /\ connectElapsed' = 0
    /\ connectFails' = 0
    /\ UNCHANGED <<fcVars, histVars, restVars, net, pcServer, lastSend, clientResults, listened>>

AfterSend(pc) ==
    CASE pc = "sendSize" -> "sendHash"
      [] pc = "sendHash" -> "sendName"
      [] pc = "sendName" -> "print"

Metadata(pc) ==
    CASE pc = "sendSize" -> "fileSize"
      [] pc = "sendHash" -> "fileHash"
      [] pc = "sendName" -> "fileName"

\* lines 187, 196 and 199: the three metadata sends, results ignored
ClientSendPacket ==
    /\ pcClient \in {"sendSize", "sendHash", "sendName"}
    /\ LET c == conn["client"]
           r == SendPacket(c, "client", Metadata(pcClient))
       IN  /\ net' = Post(net, c, r.out)
           /\ lastSend' = SendRecord("client", c, r)
           /\ clientResults' = Append(clientResults, r.result)
    /\ pcClient' = AfterSend(pcClient)
    /\ UNCHANGED <<fcVars, histVars, restVars, conn, pcServer, connectElapsed, connectFails,
                   listened>>

\* lines 201-204 and 263-265
ClientPrint ==
    /\ pcClient = "print"
    /\ pcClient' = "exit"
    /\ UNCHANGED <<fcVars, histVars, restVars, conn, net, pcServer, lastSend, clientResults,
                   connectElapsed, connectFails, listened>>

\* line 212
ServerListen ==
    /\ pcServer = "listen"
    /\ conn' = [conn EXCEPT !["server"] = Listen(@)]
    /\ listened' = TRUE
    /\ pcServer' = "wait"
    /\ UNCHANGED <<fcVars, histVars, restVars, net, pcClient, lastSend, clientResults,
                   connectElapsed, connectFails>>

\* While Listening the time since the last packet is compared with nothing
\* and is set to 0 on the way to Connected, so past MaxWaitTicks its value
\* is immaterial and is held there.
WaitCapped(c) ==
    IF c.state = Listening
    THEN [c EXCEPT !.timeoutAccumulator = Min(@, MaxWaitTicks)]
    ELSE c

\* lines 214-216: one test of the loop condition and, if it holds, the Update
ServerWait ==
    /\ pcServer = "wait"
    /\ IF IsConnected(conn["server"])
       THEN /\ pcServer' = "metadata"
            /\ UNCHANGED <<conn, net>>
       ELSE /\ conn' = [conn EXCEPT !["server"] = WaitCapped(ConnUpdate(@, DeltaTime))]
            /\ net' = Post(net, conn'["server"], SentByUpdate(conn'["server"], "server"))
            /\ pcServer' = "sleep"
    /\ UNCHANGED <<fcVars, histVars, restVars, pcClient, lastSend, clientResults,
                   connectElapsed, connectFails, listened>>

\* ReceivePacket returned 0: no datagram waiting, or none accepted
NoBytes == "none"

\* line 238: the first sizeof(std::streamsize) bytes of the packet, as a number
AsStreamsize(packet) == [streamsize |-> packet]

\* lines 245 and 252: the packet's bytes_read bytes, as a string
AsString(packet) == [string |-> packet]

AllReceived(rec) == rec.fileSizeReceived /\ rec.hashReceived /\ rec.fileNameReceived

\* lines 234-257: what the loop body does with the packet it was given
Decode(rec, packet) ==
    IF packet = NoBytes THEN rec
    ELSE IF ~rec.fileSizeReceived
    THEN [rec EXCEPT !.fileSize = AsStreamsize(packet), !.fileSizeReceived = TRUE]
    ELSE IF ~rec.hashReceived
    THEN [rec EXCEPT !.fileHash = AsString(packet), !.hashReceived = TRUE]
    ELSE IF ~rec.fileNameReceived
    THEN [rec EXCEPT !.fileName = AsString(packet), !.fileNameReceived = TRUE]
    ELSE rec

\* lines 229-263: one test of the loop condition and, if it holds, one pass:
\* ReceivePacket pulls any one waiting datagram, the body decodes it, and
\* Update(DeltaTime) follows
ServerMetadata ==
    /\ pcServer = "metadata"
    /\ IF AllReceived(received)
       THEN /\ pcServer' = "done"
            /\ UNCHANGED <<conn, net, received>>
       ELSE \E i \in (IF net["server"] = <<>> THEN {0} ELSE 1 .. Len(net["server"])) :
                LET c0 == conn["server"]
                    c1 == IF i = 0 THEN c0 ELSE ReceivePacket(c0, net["server"][i])
                    packet == IF i = 0 THEN NoBytes
                              ELSE IF Accepts(c0, net["server"][i])
                                      /\ net["server"][i].payload # Handshake
                              THEN net["server"][i].payload
                              ELSE NoBytes
                    c2 == ConnUpdate(c1, DeltaTime)
                    rest == IF i = 0 THEN net ELSE [net EXCEPT !["server"] = Without(@, i)]
                IN  /\ received' = Decode(received, packet)
                    /\ conn' = [conn EXCEPT !["server"] = c2]
                    /\ net' = Post(rest, c2, SentByUpdate(c2, "server"))
                    /\ pcServer' = "metadata"
    /\ UNCHANGED <<decodeFrame, delivery, pcClient, lastSend, clientResults,
                   connectElapsed, connectFails, listened>>

\* line 217: net::wait(DeltaTime) returns and the loop condition is next
ServerSleep ==
    /\ pcServer = "sleep"
    /\ pcServer' = "wait"
    /\ UNCHANGED <<fcVars, histVars, restVars, conn, net, pcClient, lastSend,
                   clientResults, connectElapsed, connectFails, listened>>

\* lines 214-260: the server is in one of its two loops
ServerLoops == IF pcServer = "wait" THEN ServerWait ELSE ServerMetadata

NextMain ==
    \/ ClientOpenFile \/ ClientConnect \/ ClientSendPacket \/ ClientPrint
    \/ ServerListen \/ ServerLoops \/ ServerSleep

SpecMain == Init /\ [][NextMain]_vars

\* some client sends a datagram of this protocol to the server's port
PeerSends ==
    /\ listened
    /\ net' = [net EXCEPT !["server"] = Deliver(@, <<Datagram("peer", ProtocolId, "data")>>)]
    /\ net' # net
    /\ UNCHANGED <<fcVars, histVars, restVars, conn, pcClient, pcServer, lastSend,
                   clientResults, connectElapsed, connectFails, listened>>

NextMainFair == NextMain \/ PeerSends

\* each process keeps running: the client's straight-line code reaches its
\* end and the server's loops keep making passes
SpecMainFair ==
    /\ Init
    /\ [][NextMainFair]_vars
    /\ WF_vars(ClientOpenFile \/ ClientConnect \/ ClientSendPacket \/ ClientPrint)
    /\ WF_vars(ServerListen \/ ServerLoops \/ ServerSleep)

----------------------------------------------------------------------------
(* The connection interface under any caller: a client and a server        *)
(* connection over a transport that loses and reorders datagrams and       *)
(* carries foreign traffic.                                                *)

\* longest time a connection is updated without a reset of its counter
MaxIdleSeconds == 20

ConnDeltaTimes == {Ticks(5), Ticks(10)}

CallConnect ==
    /\ conn["client"].state \in {Disconnected, ConnectFail}
    /\ conn' = [conn EXCEPT !["client"] = Connect(@, "server")]
    /\ connectElapsed' = 0
    /\ connectFails' = 0
    /\ UNCHANGED <<fcVars, histVars, restVars, net, pcClient, pcServer, lastSend,
                   clientResults, listened>>

CallListen ==
    /\ conn["server"].state = Disconnected
    /\ conn' = [conn EXCEPT !["server"] = Listen(@)]
    /\ listened' = TRUE
    /\ UNCHANGED <<fcVars, histVars, restVars, net, pcClient, pcServer, lastSend,
                   clientResults, connectElapsed, connectFails>>

CallUpdate ==
    \E self \in Endpoints, deltaTime \in ConnDeltaTimes :
        /\ conn[self].timeoutAccumulator + deltaTime <= Ticks(MaxIdleSeconds)
        /\ self = "client" => connectElapsed + deltaTime <= Ticks(MaxIdleSeconds)
        /\ conn' = [conn EXCEPT ![self] = ConnUpdate(@, deltaTime)]
        /\ net' = Post(net, conn'[self], SentByUpdate(conn'[self], self))
        /\ IF self = "client"
           THEN /\ connectElapsed' = connectElapsed + deltaTime
                /\ connectFails' = connectFails
                      + (IF ~ConnectFailed(conn[self]) /\ ConnectFailed(conn'[self])
                         THEN 1 ELSE 0)
           ELSE UNCHANGED <<connectElapsed, connectFails>>
        /\ UNCHANGED <<fcVars, histVars, restVars, pcClient, pcServer, lastSend,
                       clientResults, listened>>

CallSendPacket ==
    \E self \in Endpoints :
        LET c == conn[self]
            r == SendPacket(c, self, "data")
        IN  /\ net' = Post(net, c, r.out)
            /\ lastSend' = SendRecord(self, c, r)
            /\ UNCHANGED <<fcVars, histVars, restVars, conn, pcClient, pcServer,
                           clientResults, connectElapsed, connectFails, listened>>

\* the transport hands over any one waiting datagram
CallReceivePacket ==
    \E self \in Endpoints :
        \E i \in 1 .. Len(net[self]) :
            /\ conn' = [conn EXCEPT ![self] = ReceivePacket(@, net[self][i])]
            /\ net' = [net EXCEPT ![self] = Without(@, i)]
            /\ UNCHANGED <<fcVars, histVars, restVars, pcClient, pcServer, lastSend,
                           clientResults, connectElapsed, connectFails, listened>>

\* the transport loses a datagram
Lose ==
    \E self \in Endpoints :
        \E i \in 1 .. Len(net[self]) :
            /\ net' = [net EXCEPT ![self] = Without(@, i)]
            /\ UNCHANGED <<fcVars, histVars, restVars, conn, pcClient, pcServer, lastSend,
                           clientResults, connectElapsed, connectFails, listened>>

\* a datagram from some other host arrives, of this protocol or not
Foreign ==
    \E self \in Endpoints, protocol \in {ProtocolId, 0} :
        /\ net' = [net EXCEPT
                     ![self] = Deliver(@, <<Datagram("stranger", protocol, "data")>>)]
        /\ net' # net
        /\ UNCHANGED <<fcVars, histVars, restVars, conn, pcClient, pcServer, lastSend,
                       clientResults, connectElapsed, connectFails, listened>>

NextConn ==
    \/ CallConnect \/ CallListen \/ CallUpdate \/ CallSendPacket
    \/ CallReceivePacket \/ Lose \/ Foreign

SpecConn == Init /\ [][NextConn]_vars



----------------------------------------------------------------------------
(* Properties of FlowControl, checked under Spec *)


IsUpdate == call.op = "Update"

\* C1: a run of Update calls with rtt <= 250 that starts in Bad with
\* good_conditions_time = 0 and penalty_time = runP is in Good exactly when
\* the deltaTime summed over the run strictly exceeds runP, and has been
\* promoted exactly once by then and never before: one promotion, at the
\* first call that takes the sum past runP, and Good on every later call.
C1_PromotedOncePastPenalty ==
    /\ (mode = Good) <=> (runTime > runP)
    /\ runPromotions = (IF runTime > runP THEN 1 ELSE 0)

\* the sum equalled the penalty before this call, and only this call promoted
C1_Witness ==
    /\ IsUpdate /\ pre.mode = Bad /\ mode = Good
    /\ pre.good_conditions_time = runP
    /\ runP = Sec(4)
    /\ runPromotions = 1

\* C2: an Update with rtt > 250 that begins in Good ends in Bad with both
\* counters 0; penalty_time is min(2 * penalty_time, 60) when the streak was
\* under 10 s and the penalty under 60 s before the call, else unchanged.
C2_DropFromGood ==
    (IsUpdate /\ pre.mode = Good /\ call.rtt > 250) =>
        /\ mode = Bad
        /\ good_conditions_time = 0
        /\ penalty_reduction_accumulator = 0
        /\ penalty_time =
              (IF pre.good_conditions_time < Sec(10) /\ pre.penalty_time < Sec(60)
               THEN Min(2 * pre.penalty_time, Sec(60))
               ELSE pre.penalty_time)

\* a 3 s good streak at penalty 4.0, then one bad sample: penalty 8.0, Bad
C2_Witness ==
    /\ IsUpdate /\ pre.mode = Good /\ call.rtt > 250
    /\ pre.good_conditions_time = Sec(3) /\ pre.penalty_time = Sec(4)
    /\ penalty_time = Sec(8) /\ mode = Bad

\* C3: GetSendRate returns 30 exactly in Good and 10 exactly in Bad, the rate
\* is always one of the two, it is 10 right after construction or Reset, and
\* the call changes no field.
C3_SendRate ==
    /\ SendRate(mode) \in {10, 30}
    /\ (SendRate(mode) = 30) <=> (mode = Good)
    /\ (SendRate(mode) = 10) <=> (mode = Bad)
    /\ call.op \in {"FlowControl", "Reset"} => SendRate(mode) = 10
    /\ call.op = "GetSendRate" =>
          /\ ret = (IF pre.mode = Good THEN 30 ELSE 10)
          /\ Now = pre

C3_Witness == call.op = "GetSendRate" /\ ret = 30 /\ good_conditions_time > 0

\* C4: after the constructor and after Reset() from any state the governor
\* is Bad with penalty_time 4.0 and both counters 0.
C4_ResetState ==
    call.op \in {"FlowControl", "Reset"} => Now = Fields(Bad, Sec(4), 0, 0)

\* Reset erased a Good mode, a changed penalty and running counters
C4_Witness ==
    /\ call.op = "Reset"
    /\ pre.mode = Good /\ pre.penalty_time = Sec(8)
    /\ pre.good_conditions_time > 0 /\ pre.penalty_reduction_accumulator > 0

\* C5: in Bad an Update with rtt > 250 zeroes good_conditions_time and stays
\* Bad; a promotion happens only at the end of an uninterrupted run of
\* rtt <= 250 samples whose summed deltaTime (runTime) strictly exceeds the
\* penalty, so while that sum is within the penalty the governor is Bad and
\* the rate is 10.
C5_BadStreak ==
    /\ (IsUpdate /\ pre.mode = Bad /\ call.rtt > 250) =>
          mode = Bad /\ good_conditions_time = 0
    /\ (IsUpdate /\ pre.mode = Bad /\ mode = Good) =>
          call.rtt <= 250 /\ runTime > pre.penalty_time
    /\ mode = Bad =>
          /\ good_conditions_time = runTime
          /\ runTime <= penalty_time
          /\ SendRate(mode) = 10

\* a bad sample cut a streak that had nearly earned the promotion
C5_Witness ==
    /\ IsUpdate /\ pre.mode = Bad /\ call.rtt > 250
    /\ pre.good_conditions_time = pre.penalty_time
    /\ pre.penalty_time = Sec(8)
    /\ good_conditions_time = 0 /\ mode = Bad

\* C6: a Good Update with rtt <= 250 adds deltaTime to both counters; when
\* the accumulator then exceeds 10 s and the penalty is above 1.0 the penalty
\* becomes max(penalty / 2, 1.0) and the accumulator 0 while
\* good_conditions_time keeps its sum; otherwise the penalty is unchanged and
\* the accumulator keeps its sum (so at penalty 1.0 it grows on).
C6_GoodAccumulate ==
    (IsUpdate /\ pre.mode = Good /\ call.rtt <= 250) =>
        /\ mode = Good
        /\ good_conditions_time = pre.good_conditions_time + call.deltaTime
        /\ IF pre.penalty_reduction_accumulator + call.deltaTime > Sec(10)
              /\ pre.penalty_time > Sec(1)
           THEN /\ 2 * penalty_time = Max(pre.penalty_time, 2 * Sec(1))
                /\ penalty_reduction_accumulator = 0
           ELSE /\ penalty_time = pre.penalty_time
                /\ penalty_reduction_accumulator =
                      pre.penalty_reduction_accumulator + call.deltaTime

\* the halving of 1.875 that the floor turns into 1.0
C6_Witness ==
    /\ IsUpdate /\ pre.mode = Good /\ call.rtt <= 250
    /\ pre.penalty_time < Sec(2) /\ pre.penalty_time > Sec(1)
    /\ penalty_time = Sec(1)
    /\ penalty_reduction_accumulator = 0
    /\ good_conditions_time > Sec(10)

\* C7: 1.0 <= penalty_time <= 60.0 in every state reachable by Update (any
\* deltaTime >= 0, any rtt) and Reset.
C7_PenaltyRange == Sec(1) <= penalty_time /\ penalty_time <= Sec(60)

\* the doubling of 32 that the ceiling turns into 60
C7_Witness ==
    /\ IsUpdate /\ pre.mode = Good /\ pre.penalty_time = Sec(32)
    /\ penalty_time = Sec(60)

----------------------------------------------------------------------------
(* Properties of the connection as main() and other callers use it *)

\* C9: a SendPacket call made while the connection is not Connected returns
\* NotConnected and hands nothing to the transport (checked under SpecMain);
\* the client's three metadata sends, made right after Connect(), are such
\* calls: each is made in Connecting, each fails, and no datagram reaches the
\* transport.
C9_SendFailsUnlessConnected ==
    /\ (lastSend.by # NoAddress /\ lastSend.state # Connected) =>
          lastSend.result = NotConnected /\ ~lastSend.handed
    /\ lastSend.by = "client" => lastSend.state = Connecting
    /\ \A i \in 1 .. Len(clientResults) : clientResults[i] = NotConnected
    /\ net["server"] = <<>>

\* the client has made its three sends
C9_Witness ==
    /\ pcClient = "print"
    /\ Len(clientResults) = 3
    /\ lastSend = [by |-> "client", state |-> Connecting,
                   result |-> NotConnected, handed |-> FALSE]
    /\ pcServer = "wait"

\* C10: while the server has never called Listen, a client that called
\* Connect is never Connected; it is in ConnectFail exactly when the
\* deltaTime of its Update calls since Connect exceeds TimeOut (10 s), in
\* Connecting until then, and ConnectFailed() has turned true once by then
\* and not before (checked under SpecConn).
C10_ConnectFailsOnce ==
    (~listened /\ conn["client"].state # Disconnected) =>
        /\ ~IsConnected(conn["client"])
        /\ ConnectFailed(conn["client"]) <=> (connectElapsed > Ticks(10))
        /\ (conn["client"].state = Connecting) <=> (connectElapsed <= Ticks(10))
        /\ connectFails = (IF connectElapsed > Ticks(10) THEN 1 ELSE 0)

\* ConnectFail outlasted a further Update, after exactly TimeOut had not failed
C10_Witness ==
    /\ ~listened
    /\ ConnectFailed(conn["client"])
    /\ connectElapsed = Ticks(20)
    /\ conn["client"].timeoutAccumulator = Ticks(5)
    /\ connectFails = 1

\* the branches of Update that the recorded call executed
BranchesRun == UpdateTrace(pre, call.deltaTime, call.rtt).ran

ModeChanged == IsUpdate /\ mode # pre.mode

\* C17: an Update call changes the mode at most once.  A call that drops
\* Good to Bad executed the Good block only (the Bad-mode promotion test was
\* not evaluated), a call that promotes Bad to Good executed the Bad block
\* only, a Good-mode call with rtt <= 250 ends in Good, and every call that
\* changed the mode leaves good_conditions_time = 0 and
\* penalty_reduction_accumulator = 0.
C17_OneModeChangePerCall ==
    IsUpdate =>
        /\ (pre.mode = Good /\ mode = Bad) => BranchesRun = {"Good"}
        /\ (pre.mode = Bad /\ mode = Good) => BranchesRun = {"Bad"}
        /\ (pre.mode = Good /\ call.rtt <= RTT_Threshold) => mode = Good
        /\ (pre.mode = Good /\ call.rtt > RTT_Threshold) => mode = Bad
        /\ ModeChanged => /\ good_conditions_time = 0
                          /\ penalty_reduction_accumulator = 0

\* a drop whose call carried a positive deltaTime and found a streak and an
\* accumulator to clear
C17_Witness ==
    /\ ModeChanged
    /\ pre.mode = Good
    /\ call.deltaTime > 0
    /\ pre.good_conditions_time > 0
    /\ pre.penalty_reduction_accumulator > 0
    /\ BranchesRun = {"Good"}

\* C18: in Good mode penalty_reduction_accumulator <= good_conditions_time,
\* and a drop to Bad that ends a Good episode in which penalty_time was
\* halved found good_conditions_time > 10 s and left penalty_time as it was:
\* no episode both halves and doubles the penalty.
C18_NeverHalvedAndDoubled ==
    /\ mode = Good => penalty_reduction_accumulator <= good_conditions_time
    /\ (ModeChanged /\ pre.mode = Good /\ episodeHalvings > 0) =>
           /\ pre.good_conditions_time > Sec(10)
           /\ penalty_time = pre.penalty_time

\* a drop at the end of an episode that had halved the penalty
C18_Witness ==
    /\ ModeChanged
    /\ pre.mode = Good
    /\ episodeHalvings > 0
    /\ pre.penalty_reduction_accumulator < pre.good_conditions_time

\* C19: an Update that starts in Bad mode leaves penalty_time and
\* penalty_reduction_accumulator as they were, so penalty_time changes only
\* in calls that start in Good mode, and penalty_reduction_accumulator = 0
\* in every Bad state.
C19_BadModeFrame ==
    /\ (IsUpdate /\ pre.mode = Bad) =>
           /\ penalty_time = pre.penalty_time
           /\ penalty_reduction_accumulator = pre.penalty_reduction_accumulator
    /\ (IsUpdate /\ penalty_time # pre.penalty_time) => pre.mode = Good
    /\ mode = Bad => penalty_reduction_accumulator = 0

\* a Bad-mode call that promoted, after an earlier drop had raised the penalty
C19_Witness ==
    /\ ModeChanged
    /\ pre.mode = Bad
    /\ pre.penalty_time > Sec(4)
    /\ call.deltaTime > 0

(***************************************************************************)
(* SequenceMath.  A sequence number is an unsigned 32-bit counter, held    *)
(* here as its two 16-bit halves so that every value up to 2^32 - 1 and    *)
(* every difference modulo 2^32 is computed at full width.                 *)
(***************************************************************************)
Seq32(hi, lo) == [hi |-> hi, lo |-> lo]

Greater(a, b) == a.hi > b.hi \/ (a.hi = b.hi /\ a.lo > b.lo)

\* a - b in unsigned 32-bit arithmetic
Difference(a, b) ==
    LET borrow == IF a.lo < b.lo THEN 1 ELSE 0
    IN  Seq32((a.hi - b.hi - borrow) % 65536, (a.lo - b.lo) % 65536)

\* 2^31
HALF_RANGE == Seq32(32768, 0)

MoreRecentStrictHalf(a, b) ==
    \/ Greater(a, b) /\ Greater(HALF_RANGE, Difference(a, b))
    \/ Greater(b, a) /\ Greater(Difference(b, a), HALF_RANGE)

\* (a > b && a - b <= HALF_RANGE) || (b > a && b - a > HALF_RANGE)
MoreRecent(a, b) ==
    \/ Greater(a, b) /\ ~Greater(Difference(a, b), HALF_RANGE)
    \/ Greater(b, a) /\ Greater(Difference(b, a), HALF_RANGE)

\* the halves the arguments are drawn from: both ends of the range, both
\* sides of 2^31 and both sides of the wrap from 2^32 - 1 to 0
SeqHighs == {0, 1, 32767, 32768, 32769, 65535}
SeqLows == {0, 1, 65535}
SeqInputs == {Seq32(hi, lo) : hi \in SeqHighs, lo \in SeqLows}

NotCalled == [called |-> FALSE, forward |-> FALSE, backward |-> FALSE]

InitSeq ==
    /\ Constructed
    /\ ConnIdle
    /\ SustainIdle
    /\ AckIdle
    /\ DecodeIdle
    /\ s1 \in SeqInputs
    /\ s2 \in SeqInputs
    /\ seqRet = NotCalled

\* MoreRecent called on the pair, in both orders
CompareSequences ==
    /\ ~seqRet.called
    /\ seqRet' = [called |-> TRUE,
                  forward |-> MoreRecent(s1, s2),
                  backward |-> MoreRecent(s2, s1)]
    /\ UNCHANGED <<seqFrame, s1, s2>>

NextSeq == CompareSequences

SpecSeq == InitSeq /\ [][NextSeq]_vars

\* C12: for 32-bit sequence numbers a # b exactly one of MoreRecent(a, b)
\* and MoreRecent(b, a) holds, also when they are exactly 2^31 apart and
\* when they lie on either side of the wrap from 2^32 - 1 to 0.
C12_ExactlyOneMoreRecent ==
    (seqRet.called /\ s1 # s2) => (seqRet.forward # seqRet.backward)

\* a pair exactly 2^31 apart in both directions: counting on from 2^31 + 1
\* reaches 1 after 2^31 steps, through the wrap from 2^32 - 1 to 0
C12_Witness ==
    /\ seqRet.called
    /\ Difference(s1, s2) = HALF_RANGE
    /\ Difference(s2, s1) = HALF_RANGE
    /\ s1 = Seq32(32768, 1)
    /\ s2 = Seq32(0, 1)

(***************************************************************************)
(* AckTracker: the sent buffer and the sent, acked and lost counters.  The *)
(* round-trip and bandwidth estimates, which no counter depends on, are    *)
(* left out.  sentLog, ackedLog and lostLog record which sequence numbers  *)
(* each counter counted.                                                   *)
(***************************************************************************)
MaxSent == 3
MaxAckSeconds == 3

\* DetectLosses' fixed ceiling of one second
LossTimeout == Ticks(1)

\* the local sequence number after a send: one more, wrapping at 2^32
Increment(s) ==
    IF s.lo = 65535 THEN Seq32((s.hi + 1) % 65536, 0) ELSE Seq32(s.hi, s.lo + 1)

OnPacketSent(t, sequence, now) ==
    [t EXCEPT !.sent_buffer = Append(@, [sequence |-> sequence, sent_at |-> now]),
              !.sent_packets = @ + 1,
              !.sentLog = Append(@, sequence)]

\* the sequence numbers a header acknowledges: ack itself, and ack - (i + 1)
\* for every bit i set in ack_bits
Acknowledged(ack, ack_bits) ==
    {ack} \cup {Difference(ack, Seq32(0, i + 1)) : i \in ack_bits}

SequencesOf(entries) == [i \in 1..Len(entries) |-> entries[i].sequence]

ProcessIncomingAckKeepsEntries(t, ack, ack_bits) ==
    LET hit(e) == e.sequence \in Acknowledged(ack, ack_bits)
        hits == SelectSeq(t.sent_buffer, hit)
    IN  [t EXCEPT !.acked_packets = @ + Len(hits),
                  !.ackedLog = @ \o SequencesOf(hits)]

ProcessIncomingAck(t, ack, ack_bits) ==
    LET hit(e) == e.sequence \in Acknowledged(ack, ack_bits)
        miss(e) == ~hit(e)
        hits == SelectSeq(t.sent_buffer, hit)
    IN  [t EXCEPT !.sent_buffer = SelectSeq(@, miss),
                  !.acked_packets = @ + Len(hits),
                  !.ackedLog = @ \o SequencesOf(hits)]

DetectLosses(t, now, rtt_based_timeout) ==
    LET old(e) == now - e.sent_at > rtt_based_timeout
        young(e) == ~old(e)
        olds == SelectSeq(t.sent_buffer, old)
    IN  [t EXCEPT !.sent_buffer = SelectSeq(@, young),
                  !.lost_packets = @ + Len(olds),
                  !.lostLog = @ \o SequencesOf(olds)]

\* where the local sequence counter may stand when the tracker is observed:
\* at its start, and two sends before it wraps
AckStarts == {Seq32(0, 0), Seq32(65535, 65534)}

\* the headers a peer may send: any ack near the local counter, sent or not,
\* with any of these bits set
AckInputs == UNION {{st, Increment(st), Increment(Increment(st)),
                     Increment(Increment(Increment(st)))} : st \in AckStarts}
AckBitInputs == {0, 1, 31}
AckDeltaTimes == {Ticks(1) \div 2, Ticks(1)}

InitAck ==
    /\ Constructed
    /\ ConnIdle
    /\ SustainIdle
    /\ SeqIdle
    /\ DecodeIdle
    /\ tracker = NoPackets
    /\ localSequence \in AckStarts
    /\ clock = 0

\* SendPacket's bookkeeping: record the packet, advance the local sequence
AckSend ==
    /\ tracker.sent_packets < MaxSent
    /\ tracker' = OnPacketSent(tracker, localSequence, clock)
    /\ localSequence' = Increment(localSequence)
    /\ UNCHANGED <<ackFrame, clock>>

\* a header arrives from the peer
AckReceive ==
    /\ \E ack \in AckInputs, ack_bits \in SUBSET AckBitInputs :
           tracker' = ProcessIncomingAck(tracker, ack, ack_bits)
    /\ UNCHANGED <<ackFrame, localSequence, clock>>

\* one tick: the clock advances and DetectLosses runs once
AckTick ==
    /\ \E deltaTime \in AckDeltaTimes :
           /\ clock + deltaTime <= Ticks(MaxAckSeconds)
           /\ clock' = clock + deltaTime
           /\ tracker' = DetectLosses(tracker, clock + deltaTime, LossTimeout)
    /\ UNCHANGED <<ackFrame, localSequence>>

NextAck == AckSend \/ AckReceive \/ AckTick

SpecAck == InitAck /\ [][NextAck]_vars

Range(q) == {q[i] : i \in 1..Len(q)}

\* C11: SentPackets() == AckedPackets() + LostPackets() + the number of
\* entries in the sent buffer after every send, incoming ack and tick, and
\* every sent sequence number is in exactly one of the three: the buffer,
\* the acked count and the lost count list each sent packet once between
\* them.
C11_SentIsAckedLostOutstanding ==
    LET fates == SequencesOf(tracker.sent_buffer) \o tracker.ackedLog \o tracker.lostLog
    IN  /\ tracker.sent_packets =
              tracker.acked_packets + tracker.lost_packets + Len(tracker.sent_buffer)
        /\ tracker.acked_packets = Len(tracker.ackedLog)
        /\ tracker.lost_packets = Len(tracker.lostLog)
        /\ tracker.sent_packets = Len(tracker.sentLog)
        /\ Range(fates) = Range(tracker.sentLog)
        /\ Len(fates) = Cardinality(Range(fates))

\* one packet acked, one lost and one outstanding, sent across the wrap of
\* the local sequence number
C11_Witness ==
    /\ tracker.acked_packets = 1
    /\ tracker.lost_packets = 1
    /\ Len(tracker.sent_buffer) = 1
    /\ localSequence = Seq32(0, 1)

(***************************************************************************)
(* Sustained good conditions.  Any sequence of Update calls brings the     *)
(* governor to some reachable state; from there every Update carries       *)
(* rtt <= 250 and one fixed positive deltaTime.  The two time counters are *)
(* held at Sec(MaxRunSeconds) once they pass it: every comparison Update   *)
(* makes is against 10 s or against a penalty_time of at most 60 s, so a   *)
(* counter beyond that has the same future whatever its value.             *)
(***************************************************************************)
Saturated(fc) ==
    [fc EXCEPT !.good_conditions_time = Min(@, Sec(MaxRunSeconds)),
               !.penalty_reduction_accumulator = Min(@, Sec(MaxRunSeconds))]

\* Update(deltaTime, rtt) with any arguments, before the sustained run
UpdateAny ==
    /\ sustained = 0
    /\ \E deltaTime \in DeltaTimes, rtt \in Rtts :
           Set(Saturated(UpdateFields(Now, deltaTime, rtt)))
    /\ UNCHANGED <<histVars, connVars, restVars>>

\* good conditions set in: the caller's deltaTime is fixed from here on
Sustain ==
    /\ sustained = 0
    /\ \E deltaTime \in DeltaTimes \ {0} : sustained' = deltaTime
    /\ sustainedFrom' = [mode |-> mode, penalty_time |-> penalty_time]
    /\ UNCHANGED sustainFrame

\* Update(sustained, rtt) with rtt <= RTT_Threshold
UpdateSustained ==
    /\ sustained > 0
    /\ \E rtt \in {r \in Rtts : r <= RTT_Threshold} :
           Set(Saturated(UpdateFields(Now, sustained, rtt)))
    /\ UNCHANGED <<histVars, connVars, restVars>>

NextSustained == UpdateAny \/ Sustain \/ UpdateSustained

\* the caller keeps calling Update once per frame
SpecSustained == Init /\ [][NextSustained]_vars /\ WF_vars(UpdateSustained)

ValidDatagramWaiting ==
    \E i \in 1 .. Len(net["server"]) : net["server"][i].protocol = ProtocolId

\* C13: once the server is in its wait loop and a client has sent a packet
\* with the correct protocol id to the server's port, the loop eventually
\* exits with IsConnected() true.
C13_WaitLoopExits ==
    (pcServer \in {"wait", "sleep"} /\ ValidDatagramWaiting)
        ~> (pcServer \notin {"wait", "sleep"} /\ IsConnected(conn["server"]))

\* C14: when the client prints "Client sent metadata" its three SendPacket
\* calls, made in the order file size, hash, file name, have each handed a
\* packet to the transport.
C14_MetadataHandedOver ==
    pcClient = "print" =>
        /\ Len(clientResults) = 3
        /\ \A i \in 1 .. 3 : clientResults[i] = Sent

MaxDeliveries == 4

ClientPayloads == {Metadata("sendSize"), Metadata("sendHash"), Metadata("sendName")}

Deliveries ==
    {q \in UNION {[1 .. n -> ClientPayloads \cup {NoBytes}] : n \in 1 .. MaxDeliveries} :
        \A i, j \in 1 .. Len(q) : (i # j /\ q[i] = q[j]) => q[i] = NoBytes}

InitDecode ==
    /\ Constructed
    /\ ConnIdle
    /\ SustainIdle
    /\ SeqIdle
    /\ AckIdle
    /\ received = NothingReceived
    /\ delivery \in Deliveries

\* one pass of the loop: ReceivePacket returns the next packet and the body
\* decodes it
ReceiveNext ==
    /\ ~AllReceived(received)
    /\ delivery # <<>>
    /\ received' = Decode(received, Head(delivery))
    /\ delivery' = Tail(delivery)
    /\ UNCHANGED <<decodeFrame, connVars>>

NextDecode == ReceiveNext

SpecDecode == InitDecode /\ [][NextDecode]_vars

====
